---- MODULE Spec2Model ----
(***************************************************************************)
(* Model of pooshit (src/main.go): push/pull synchronisation of a          *)
(* directory tree over SFTP followed, in push mode, by a fixed pipeline of *)
(* remote docker commands.                                                 *)
(*                                                                         *)
(* Strings are sequences of one-character strings.  A relative path is the *)
(* slash-joined string the code obtains from filepath.Rel.  Both endpoints *)
(* are maps from the relative paths of a small universe of nodes to file   *)
(* metadata (existence, kind, contents, modification time).                *)
(***************************************************************************)
EXTENDS Integers, Sequences, FiniteSets, TLC

VARIABLES
    patterns,      \* Config.IgnorePatterns
    local,         \* local tree below Config.LocalFolder
    remote,        \* remote tree below the resolved Config.RemoteFolder
    runs,          \* number of program invocations started so far
    mode,          \* pullMode of the current invocation: "push" | "pull"
    tilde,         \* whether Config.RemoteFolder starts with "~/"
    pc,            \* position of the current invocation
    todo,          \* pending nodes of the walk (stack, next node first)
    plan,          \* filesToSync / filesToPull
    idx,           \* number of plan items phase 2 is done with
    ignored,       \* local variable ignored, as the list of counted paths
    skippedCount,  \* skippedCount
    syncedCount,   \* syncedCount / downloadedCount
    syncErr,       \* outcome of SyncFiles / PullFiles
    exitErr,       \* outcome of the invocation (log.Fatalf or normal return)
    ops,           \* remote docker commands issued by ExecuteDockerCommands
    cmps,          \* comparisons made by phase 2, in order
    xfers,         \* uploadFile / downloadFile calls made, with their result
    mkdirs,        \* destination directory creations of this invocation
    remotePath,    \* local variable remotePath of SyncFiles / PullFiles
    used,          \* remote roots handed to SFTP operations by the sync call
    unread,        \* source nodes whose stat or listing failed in this invocation
    reply,         \* what the user answered to confirmAction: "none" | "yes" | "no"
    probe,         \* arguments of a single call of shouldIgnore
    verdict,       \* what that call returned
    readers,       \* the two goroutines copying the output of the build command
    logs,          \* messages logged about the outcome of the quiet commands
    progress,      \* drawings of the progress bar, in order
    prev,          \* summary of the previous invocation
    local0,        \* local tree before the first invocation
    remote0,       \* remote tree before the first invocation
    lclock,        \* wall clock of the local endpoint during the invocation
    rclock,        \* wall clock of the remote endpoint during the invocation
    faults         \* failures of the environment in the current invocation

vars == <<patterns, local, remote, runs, mode, tilde, pc, todo, plan, idx,
          ignored, skippedCount, syncedCount, syncErr, exitErr, ops, cmps,
          xfers, mkdirs, unread, remotePath, used, reply, probe,
          verdict, readers, logs, progress, prev, local0, remote0, lclock, rclock, faults>>

---------------------------------------------------------------------------
(* Bounds *)

\* timestamps range over 0..MaxTime
MaxTime == 2
\* number of successive invocations of the program
MaxRuns == 2
\* number of environment failures (I/O errors, failed commands) injected
\* into one invocation
MaxFaults == 1

\* time.Second in the unit of the model's timestamps
Second == 1

Times == 0..MaxTime

---------------------------------------------------------------------------
(* Strings *)

HasPrefix(s, p) == Len(s) >= Len(p) /\ SubSeq(s, 1, Len(p)) = p

HasSuffix(s, p) == Len(s) >= Len(p) /\ SubSeq(s, Len(s) - Len(p) + 1, Len(s)) = p

TrimPrefix(s, p) == IF HasPrefix(s, p) THEN SubSeq(s, Len(p) + 1, Len(s)) ELSE s

TrimSuffix(s, p) == IF HasSuffix(s, p) THEN SubSeq(s, 1, Len(s) - Len(p)) ELSE s

Contains(s, c) == \E k \in 1..Len(s) : s[k] = c

\* strings.Split(s, "/")
RECURSIVE Split(_)
Split(s) ==
    IF ~Contains(s, "/") THEN <<s>>
    ELSE LET k == CHOOSE j \in 1..Len(s) :
                      s[j] = "/" /\ \A m \in 1..(j - 1) : s[m] # "/"
         IN <<SubSeq(s, 1, k - 1)>> \o Split(SubSeq(s, k + 1, Len(s)))

\* filepath.Base of a clean relative path
Base(s) == LET parts == Split(s) IN parts[Len(parts)]

\* filepath.Dir of a clean relative path ("." when there is no separator)
RECURSIVE Dir(_)
Dir(s) ==
    IF ~Contains(s, "/") THEN <<".">>
    ELSE IF s[Len(s)] = "/" THEN SubSeq(s, 1, Len(s) - 1)
    ELSE Dir(SubSeq(s, 1, Len(s) - 1))

\* filepath.Match for patterns made of literals, '*' and '?'
RECURSIVE GlobMatch(_, _)
GlobMatch(p, s) ==
    IF p = <<>> THEN s = <<>>
    ELSE IF Head(p) = "*"
         THEN \/ GlobMatch(Tail(p), s)
              \/ s # <<>> /\ Head(s) # "/" /\ GlobMatch(p, Tail(s))
    ELSE IF Head(p) = "?"
         THEN s # <<>> /\ Head(s) # "/" /\ GlobMatch(Tail(p), Tail(s))
    ELSE s # <<>> /\ Head(s) = Head(p) /\ GlobMatch(Tail(p), Tail(s))

matchPattern(str, pattern) ==
    IF Contains(pattern, "*") THEN GlobMatch(pattern, str) ELSE str = pattern

---------------------------------------------------------------------------
(* Ignore patterns *)

\* variant of CleanPattern: the trailing "/" stays in the pattern
CleanPatternKeepsSlash(raw) == TrimPrefix(TrimPrefix(raw, <<"/">>), <<".", "/">>)

\* the pattern after the clean-up at the head of the loop body
CleanPattern(raw) ==
    TrimSuffix(TrimPrefix(TrimPrefix(raw, <<"/">>), <<".", "/">>), <<"/">>)

IsDirectoryPattern(raw) ==
    HasSuffix(TrimPrefix(TrimPrefix(raw, <<"/">>), <<".", "/">>), <<"/">>)

\* one iteration of the loop of shouldIgnore: TRUE when it returns true
PatternIgnores(raw, relPath, isDir) ==
    LET pattern   == CleanPattern(raw)
        baseName  == Base(relPath)
        pathParts == Split(relPath)
    IN \/ /\ IsDirectoryPattern(raw) \/ ~Contains(pattern, "*")
          /\ \/ isDir /\ (baseName = pattern \/ matchPattern(baseName, pattern))
             \/ \E k \in 1..Len(pathParts) :
                    pathParts[k] = pattern \/ matchPattern(pathParts[k], pattern)
       \/ /\ Contains(pattern, "*")
          /\ matchPattern(baseName, pattern)

\* variant of IgnoredBy: the first rule of the list alone decides
IgnoredByFirstOnly(pats, relPath, isDir) ==
    pats # <<>> /\ PatternIgnores(Head(pats), relPath, isDir)

\* the loop of shouldIgnore over the pattern list
RECURSIVE IgnoredBy(_, _, _)
IgnoredBy(pats, relPath, isDir) ==
    IF pats = <<>> THEN FALSE
    ELSE IF PatternIgnores(Head(pats), relPath, isDir) THEN TRUE
    ELSE IgnoredBy(Tail(pats), relPath, isDir)

shouldIgnore(relPath, isDir) == IgnoredBy(patterns, relPath, isDir)

\* the names, leading forms and paths shouldIgnore is probed with
ProbeNames == { <<"a">>, <<"b">>, <<"d">>, <<"d", "b">>, <<".", "d">> }

ProbePrefixes == { <<>>, <<"/">>, <<".", "/">> }

ProbePaths ==
    { <<"a">>, <<"b">>, <<"d">>, <<"d", "b">>, <<".", "d">>,
      <<"d", "/", "b">>, <<"b", "/", "d">>, <<".", "d", "/", "a">>,
      <<"a", "/", "d", "/", "b">> }

NoProbe   == [rel |-> <<>>, isDir |-> FALSE]
NoVerdict == [given |-> FALSE, plain |-> FALSE, slash |-> FALSE]

\* the rules of the list, each written with a trailing "/"
WithSlash(pats) == [k \in 1..Len(pats) |-> pats[k] \o <<"/">>]

---------------------------------------------------------------------------
(* The two trees *)

Root == <<".">>
PA   == <<"a">>
PD   == <<"d">>
PDB  == <<"d", "/", "b">>

Nodes    == {Root, PA, PD, PDB}
DirNodes == {Root, PD}
FileNodes == Nodes \ DirNodes

IsDir(n) == n \in DirNodes

\* variant of Children: the listing of the root names an entry twice
ChildrenRepeated(n) ==
    IF n = Root THEN <<PA, PD, PA>> ELSE IF n = PD THEN <<PDB>> ELSE <<>>

\* directory entries in lexical order, as filepath.Walk reads them
Children(n) ==
    IF n = Root THEN <<PA, PD>> ELSE IF n = PD THEN <<PDB>> ELSE <<>>

\* the orders in which a remote directory listing may come back
Listings(n) ==
    IF n = Root THEN {<<PA, PD>>, <<PD, PA>>} ELSE {Children(n)}

Present(fs, list) == SelectSeq(list, LAMBDA c : fs[c].exists)

\* file contents: 0 is the empty (just created or truncated) file
Contents == {1, 2, 3}
Size(c) == IF c = 0 THEN 0 ELSE IF c = 3 THEN 2 ELSE 1

NoEnt  == [exists |-> FALSE, content |-> 0, mtime |-> 0]
DirEnt == [exists |-> TRUE, content |-> 0, mtime |-> 0]
FileEnt(c, t) == [exists |-> TRUE, content |-> c, mtime |-> t]

\* the trees an endpoint can hold before the first invocation: no root at
\* all, or a root with or without file a (of any age, and of the three
\* contents at time 1) and with or without directory d holding file d/b
EmptyTree == [n \in Nodes |-> NoEnt]

TreeOf(a, withD) ==
    [n \in Nodes |->
        IF n = Root THEN DirEnt
        ELSE IF n = PA THEN a
        ELSE IF ~withD THEN NoEnt
        ELSE IF n = PD THEN DirEnt ELSE FileEnt(1, 1)]

FileInits == {NoEnt} \cup {FileEnt(1, t) : t \in Times}
                     \cup {FileEnt(c, 1) : c \in Contents}

Trees == {EmptyTree} \cup {TreeOf(a, withD) : a \in FileInits, withD \in BOOLEAN}

\* the trees of the sessions of two and more invocations
SessionTrees ==
    {TreeOf(NoEnt, FALSE), TreeOf(FileEnt(1, 0), TRUE), TreeOf(FileEnt(2, MaxTime), TRUE)}

\* os.MkdirAll / sftp.Client.MkdirAll: the directory and its ancestors
RECURSIVE MkdirAll(_, _)
MkdirAll(fs, n) ==
    IF n = Root THEN [fs EXCEPT ![Root] = DirEnt]
    ELSE MkdirAll([fs EXCEPT ![n] = DirEnt], Dir(n))

\* the configurations: IGNORE and whether REMOTE_FOLDER starts with "~/"
Config(pats, home) == [patterns |-> pats, tilde |-> home]

Configs ==
    { Config(<< <<"x">> >>, FALSE),
      Config(<< <<"x">> >>, TRUE),
      Config(<< <<"d", "/">> >>, FALSE),
      Config(<< <<"d", "*">> >>, TRUE),
      Config(<< <<"/", "a">>, <<"*", "b">> >>, FALSE) }

SessionConfigs ==
    { Config(<< <<"x">> >>, FALSE),
      Config(<< <<"d", "*">> >>, TRUE) }

\* Config.RemoteFolder, with or without the home shorthand
RemoteFolder == IF tilde THEN <<"~", "/", "r">> ELSE <<"/", "r">>

\* what getRemoteHomeDir returns when it succeeds
HomeDir == <<"/", "h">>

\* filepath.Join of two non-empty clean paths
Join(a, b) == a \o <<"/">> \o b

\* variant of ResolveRemote: the configured path is used as it is
ResolveRemoteKeepsTilde == RemoteFolder

\* the remote root after the expansion of a leading "~/"
ResolveRemote ==
    IF HasPrefix(RemoteFolder, <<"~", "/">>)
    THEN Join(HomeDir, SubSeq(RemoteFolder, 3, Len(RemoteFolder)))
    ELSE RemoteFolder

\* the goroutines started by executeRemoteCommandWithProgress: one copies
\* the standard output of the command, the other its standard error
Readers == {"stdout", "stderr"}

---------------------------------------------------------------------------
(* Results *)

Running == [kind |-> "none", item |-> <<>>]
Ok      == [kind |-> "ok", item |-> <<>>]
Err(k)  == [kind |-> k, item |-> <<>>]
ErrAt(k, n) == [kind |-> k, item |-> n]

NoPrev == [mode |-> "none", sync |-> "none"]

---------------------------------------------------------------------------
(* Change detection *)

\* variant of NeedsUpdate: a destination exactly one second older than the
\* source counts as up to date
NeedsUpdateInclusive(src, dst) ==
    ~(/\ dst.exists
      /\ Size(dst.content) = Size(src.content)
      /\ dst.mtime >= src.mtime - Second)

\* the test of phase 2: the destination is up to date when it exists, has
\* the size of the source and was modified after source time minus a second
NeedsUpdate(src, dst) ==
    ~(/\ dst.exists
      /\ Size(dst.content) = Size(src.content)
      /\ dst.mtime > src.mtime - Second)

---------------------------------------------------------------------------
(* Initial state: a configuration and two trees, no invocation started *)

\* no invocation has started
NotStarted ==
    /\ runs = 0
    /\ mode = "push"
    /\ pc = "idle"
    /\ todo = <<>>
    /\ plan = <<>>
    /\ idx = 0
    /\ ignored = <<>>
    /\ skippedCount = 0
    /\ syncedCount = 0
    /\ syncErr = Running
    /\ exitErr = Running
    /\ ops = <<>>
    /\ cmps = <<>>
    /\ xfers = <<>>
    /\ mkdirs = <<>>
    /\ unread = <<>>
    /\ remotePath = <<>>
    /\ used = {}
    /\ reply = "none"
    /\ readers = [r \in Readers |-> "idle"]
    /\ logs = <<>>
    /\ progress = <<>>
    /\ prev = NoPrev
    /\ lclock = 0
    /\ rclock = 0
    /\ faults = 0

InitWith(cfgs, trees) ==
    /\ \E c \in cfgs : patterns = c.patterns /\ tilde = c.tilde
    /\ local \in trees
    /\ remote \in trees
    /\ local0 = local
    /\ remote0 = remote
    /\ probe = NoProbe
    /\ verdict = NoVerdict
    /\ NotStarted

\* a single ignore rule made of a name without wildcard, written with one
\* of the leading forms the clean-up removes, and a path to test
InitIgnore ==
    /\ \E pre \in ProbePrefixes, nm \in ProbeNames : patterns = << pre \o nm >>
    /\ \E p \in ProbePaths, dir \in BOOLEAN : probe = [rel |-> p, isDir |-> dir]
    /\ verdict = NoVerdict
    /\ tilde = FALSE
    /\ local = EmptyTree
    /\ remote = EmptyTree
    /\ local0 = local
    /\ remote0 = remote
    /\ NotStarted

Init == InitWith(Configs, Trees)

InitTwice == InitWith(SessionConfigs, SessionTrees)

fsVars   == <<local, remote, lclock, rclock>>
cfgVars  == <<patterns, tilde, local0, remote0, probe, verdict>>
runVars  == <<runs, mode, prev, reply>>
scanVars == <<todo, plan, ignored, mkdirs, unread>>
xferVars == <<idx, skippedCount, syncedCount, cmps, xfers>>
pathVars == <<remotePath, used>>
outVars  == <<logs, progress>>

\* log.Fatalf(...) in main: the invocation ends with the error
Fatal(e) == exitErr' = e /\ pc' = "done"

\* an SFTP operation is given a path below remotePath
Uses == used' = used \cup {remotePath}

\* the environment lets a call succeed, or makes it fail while the
\* invocation has failures left
Succeeds == UNCHANGED faults
Fails    == faults < MaxFaults /\ faults' = faults + 1

---------------------------------------------------------------------------
(* main *)

\* the program is started: command line parsed, configuration loaded; the
\* clock of the endpoint written to has not gone back since the last run
Invoke ==
    /\ runs' = runs + 1
    /\ mode' \in {"push", "pull"}
    /\ IF mode' = "push"
       THEN rclock' \in rclock..MaxTime /\ lclock' = lclock
       ELSE lclock' \in lclock..MaxTime /\ rclock' = rclock
    /\ pc' = "main"
    /\ todo' = <<>>
    /\ plan' = <<>>
    /\ idx' = 0
    /\ ignored' = <<>>
    /\ skippedCount' = 0
    /\ syncedCount' = 0
    /\ syncErr' = Running
    /\ exitErr' = Running
    /\ ops' = <<>>
    /\ cmps' = <<>>
    /\ xfers' = <<>>
    /\ mkdirs' = <<>>
    /\ unread' = <<>>
    /\ remotePath' = <<>>
    /\ used' = {}
    /\ reply' = "none"
    /\ readers' = [r \in Readers |-> "idle"]
    /\ logs' = <<>>
    /\ progress' = <<>>
    /\ faults' = 0
    /\ UNCHANGED <<local, remote, cfgVars>>

\* the first invocation
Start ==
    /\ pc = "idle"
    /\ prev' = NoPrev
    /\ Invoke

\* the program is run again after an invocation whose sync succeeded
StartAgain ==
    /\ pc = "done"
    /\ syncErr = Ok
    /\ runs < MaxRuns
    /\ prev' = [mode |-> mode, sync |-> syncErr.kind]
    /\ Invoke

\* os.ReadDir(config.LocalFolder)
MainReadDir ==
    /\ pc = "main"
    /\ \/ local[Root].exists /\ Succeeds /\ pc' = "connect" /\ UNCHANGED exitErr
       \/ Fails /\ Fatal(Err("readdir"))
       \/ ~local[Root].exists /\ Succeeds /\ Fatal(Err("readdir"))
    /\ UNCHANGED <<fsVars, cfgVars, outVars, readers, runVars, pathVars, scanVars, xferVars, syncErr, ops>>

\* variant of MainConnect: the pull starts without the question
MainConnectNoQuestion ==
    /\ pc = "connect"
    /\ \/ /\ Succeeds
          /\ pc' = IF mode = "pull" THEN "pull_home" ELSE "push_stat"
          /\ UNCHANGED exitErr
       \/ Fails /\ Fatal(Err("connect"))
    /\ UNCHANGED <<fsVars, cfgVars, outVars, readers, runVars, pathVars, scanVars, xferVars, syncErr, ops>>

\* syncManager.Connect(), then the branch on pullMode
MainConnect ==
    /\ pc = "connect"
    /\ \/ /\ Succeeds
          /\ pc' = IF mode = "pull" THEN "confirm" ELSE "push_stat"
          /\ UNCHANGED exitErr
       \/ Fails /\ Fatal(Err("connect"))
    /\ UNCHANGED <<fsVars, cfgVars, outVars, readers, runVars, pathVars, scanVars, xferVars, syncErr, ops>>

\* confirmAction(...) in pull mode
Confirm ==
    /\ pc = "confirm"
    /\ \E yes \in BOOLEAN :
          /\ reply' = IF yes THEN "yes" ELSE "no"
          /\ IF yes THEN pc' = "pull_home" /\ UNCHANGED exitErr
                    ELSE Fatal(Err("cancelled"))
    /\ UNCHANGED <<fsVars, cfgVars, outVars, readers, runs, mode, prev, pathVars, scanVars, xferVars,
                   syncErr, ops, faults>>

\* variant of SyncFails: main logs the error and goes on to the deployment
SyncFailsGoesOn(e) == syncErr' = e /\ pc' = "deploy_home" /\ UNCHANGED exitErr

\* SyncFiles / PullFiles returned err: main ends with log.Fatalf
SyncFails(e) == syncErr' = e /\ Fatal(e)

---------------------------------------------------------------------------
(* SyncFiles: push *)

\* os.Stat(sm.config.LocalFolder)
PushStat ==
    /\ pc = "push_stat"
    /\ \/ /\ local[Root].exists /\ Succeeds
          /\ pc' = "push_home" /\ UNCHANGED <<syncErr, exitErr, unread>>
       \/ /\ Fails
          /\ unread' = Append(unread, Root)
          /\ SyncFails(Err("stat"))
    /\ UNCHANGED <<fsVars, cfgVars, outVars, readers, runVars, pathVars, todo, plan, ignored, mkdirs,
                   xferVars, ops>>

\* expansion of "~/" by getRemoteHomeDir
PushHome ==
    /\ pc = "push_home"
    /\ \/ /\ Succeeds
          /\ remotePath' = ResolveRemote
          /\ pc' = "push_mkroot"
          /\ UNCHANGED <<syncErr, exitErr>>
       \/ /\ tilde
          /\ Fails
          /\ SyncFails(Err("home"))
          /\ UNCHANGED remotePath
    /\ UNCHANGED <<fsVars, cfgVars, outVars, readers, runVars, used, scanVars, xferVars, ops>>

\* sm.sftpClient.MkdirAll(remotePath): a failure is only logged
PushMkRoot ==
    /\ pc = "push_mkroot"
    /\ \/ Succeeds /\ remote' = MkdirAll(remote, Root)
       \/ Fails /\ UNCHANGED remote
    /\ Uses
    /\ pc' = "push_walk"
    /\ todo' = <<Root>>
    /\ UNCHANGED <<local, lclock, rclock, cfgVars, outVars, readers, runVars, remotePath, plan, ignored,
                   mkdirs, unread, xferVars, syncErr, exitErr, ops>>

\* what the function given to filepath.Walk does with node n, and what Walk
\* does with its result: SkipDir prunes a directory
PushVisit(n) ==
    IF n = Root
    THEN /\ todo' = Present(local, Children(n)) \o Tail(todo)
         /\ Succeeds
         /\ UNCHANGED <<remote, plan, ignored, mkdirs, unread, used>>
    ELSE IF shouldIgnore(n, IsDir(n))
    THEN /\ ignored' = Append(ignored, n)
         /\ todo' = Tail(todo)
         /\ Succeeds
         /\ UNCHANGED <<remote, plan, mkdirs, unread, used>>
    ELSE IF ~IsDir(n)
    THEN /\ plan' = Append(plan, [rel |-> n, info |-> local[n]])
         /\ todo' = Tail(todo)
         /\ Succeeds
         /\ UNCHANGED <<remote, ignored, mkdirs, unread, used>>
    ELSE /\ \/ Succeeds /\ remote' = MkdirAll(remote, n)
            \/ Fails /\ UNCHANGED remote
         /\ mkdirs' = Append(mkdirs, [path |-> n, phase |-> 1,
                                      created |-> remote'[n].exists /\ ~remote[n].exists])
         /\ todo' = Present(local, Children(n)) \o Tail(todo)
         /\ Uses
         /\ UNCHANGED <<plan, ignored, unread>>

\* one call of the function given to filepath.Walk: an unreadable node ends
\* the walk with its error
PushWalkStep ==
    /\ pc = "push_walk"
    /\ todo # <<>>
    /\ \/ PushVisit(Head(todo)) /\ UNCHANGED <<pc, syncErr, exitErr>>
       \/ /\ Fails
          /\ unread' = Append(unread, Head(todo))
          /\ SyncFails(ErrAt("scan", Head(todo)))
          /\ UNCHANGED <<remote, todo, plan, ignored, mkdirs, used>>
    /\ UNCHANGED <<local, lclock, rclock, cfgVars, outVars, readers, runVars, remotePath, xferVars, ops>>

\* filepath.Walk returned nil
PushWalkEnd ==
    /\ pc = "push_walk"
    /\ todo = <<>>
    /\ IF Len(plan) = 0
       THEN syncErr' = Ok /\ pc' = "deploy_home"
       ELSE pc' = "push_xfer" /\ UNCHANGED syncErr
    /\ UNCHANGED <<fsVars, cfgVars, outVars, readers, runVars, pathVars, scanVars, xferVars, exitErr, ops,
                   faults>>

\* variant of Compare: the sizes are not looked at
CompareTimeOnly(file, dstInfo) ==
    [rel |-> file.rel, src |-> file.info, dst |-> dstInfo,
     skip |-> dstInfo.exists /\ dstInfo.mtime > file.info.mtime - Second]

\* the comparison of phase 2 against what Stat returned for the destination
Compare(file, dstInfo) ==
    [rel |-> file.rel, src |-> file.info, dst |-> dstInfo,
     skip |-> ~NeedsUpdate(file.info, dstInfo)]

\* variant of Returned: a failed Chmod makes the transfer fail
ReturnedOnlyWithMode(out) == out = "ok"

\* whether uploadFile / downloadFile returns nil: it does when the contents
\* were copied, whatever became of the Chmod that follows
Returned(out) == out \in {"ok", "chmod"}

\* ProgressBar.Update(current, message) and what Draw shows
Update(current, message) ==
    [by |-> "Update", current |-> current, total |-> Len(plan), msg |-> message]

\* ProgressBar.Complete(): the bar is drawn full with the last message
Complete(message) ==
    [by |-> "Complete", current |-> Len(plan), total |-> Len(plan), msg |-> message]

\* the drawings of one iteration of the second pass for the item at
\* position i: a skipped item is announced as skipped and again as checked,
\* a failed transfer completes the bar before the return
Drawings(i, skip, ok, verb) ==
    IF skip THEN <<Update(i, "Skipped"), Update(i, "Checking")>>
    ELSE IF ok THEN <<Update(i, verb)>>
    ELSE <<Update(i, verb), Complete(verb)>>

\* the last message given to the progress bar
LastMsg == IF progress = <<>> THEN "" ELSE progress[Len(progress)].msg

\* variant of XferDone: the loop goes on and the item is not counted
XferDoneUncounted ==
    /\ idx' = idx + 1
    /\ UNCHANGED <<syncedCount, skippedCount, pc, syncErr, exitErr>>

\* the transfer of an item returned nil: it is counted and the loop goes on
XferDone ==
    /\ syncedCount' = syncedCount + 1
    /\ idx' = idx + 1
    /\ UNCHANGED <<skippedCount, pc, syncErr, exitErr>>

\* variant of XferFails: the failed item is passed over and the loop goes on
XferFailsSkips(file) ==
    /\ idx' = idx + 1
    /\ UNCHANGED <<skippedCount, syncedCount, pc, syncErr, exitErr>>

\* the transfer of an item returned an error: the sync call returns it
XferFails(file) ==
    /\ SyncFails(ErrAt("transfer", file.rel))
    /\ UNCHANGED <<skippedCount, syncedCount, idx>>

\* variant of Upload: a failed upload removes the remote file
UploadRemovesOnFailure(n, out) ==
    IF out = "fail" THEN remote' = [remote EXCEPT ![n] = NoEnt]
    ELSE remote' = [remote EXCEPT ![n] =
                      FileEnt(IF out = "copy" THEN 0 ELSE local[n].content, rclock)]

\* uploadFile: it fails before the remote file is created, or while
\* copying, or copies and fails to set the mode, or succeeds; the server
\* stamps the file with its clock
Upload(n, out) ==
    IF out = "fail" THEN UNCHANGED remote
    ELSE remote' = [remote EXCEPT ![n] =
                      FileEnt(IF out = "copy" THEN 0 ELSE local[n].content, rclock)]

\* one iteration of the second pass of SyncFiles
PushXferStep ==
    /\ pc = "push_xfer"
    /\ idx < Len(plan)
    /\ LET file == plan[idx + 1] IN
       \E statOk \in BOOLEAN, out \in {"ok", "fail", "copy", "chmod"} :
          LET cmp == Compare(file, IF statOk THEN remote[file.rel] ELSE NoEnt)
              canCreate == remote[Dir(file.rel)].exists
              nfail == (IF statOk THEN 0 ELSE 1) +
                       (IF ~cmp.skip /\ out # "ok" /\ canCreate THEN 1 ELSE 0)
          IN /\ faults + nfail <= MaxFaults
             /\ faults' = faults + nfail
             /\ cmps' = Append(cmps, cmp)
             /\ Uses
             /\ progress' = progress \o
                   Drawings(idx + 1, cmp.skip, Returned(out), "Uploading")
             /\ IF cmp.skip
                THEN /\ out = "ok"
                     /\ skippedCount' = skippedCount + 1
                     /\ idx' = idx + 1
                     /\ UNCHANGED <<remote, xfers, syncedCount, pc, syncErr,
                                    exitErr>>
                ELSE /\ xfers' = Append(xfers, [rel |-> file.rel, ok |-> Returned(out),
                                                   out |-> out])
                     /\ out # "fail" => canCreate
                     /\ Upload(file.rel, out)
                     /\ IF Returned(out) THEN XferDone ELSE XferFails(file)
    /\ UNCHANGED <<local, lclock, rclock, cfgVars, logs, readers, runVars, remotePath, scanVars, ops>>

\* end of the second pass: SyncFiles returns nil
PushXferEnd ==
    /\ pc = "push_xfer"
    /\ idx = Len(plan)
    /\ syncErr' = Ok
    /\ progress' = Append(progress, Complete(LastMsg))
    /\ pc' = "deploy_home"
    /\ UNCHANGED <<fsVars, cfgVars, logs, readers, runVars, pathVars, scanVars, xferVars, exitErr, ops,
                   faults>>

---------------------------------------------------------------------------
(* PullFiles: pull *)

\* expansion of "~/" by getRemoteHomeDir
PullHome ==
    /\ pc = "pull_home"
    /\ \/ /\ Succeeds
          /\ remotePath' = ResolveRemote
          /\ pc' = "pull_mkroot"
          /\ UNCHANGED <<syncErr, exitErr>>
       \/ /\ tilde
          /\ Fails
          /\ SyncFails(Err("home"))
          /\ UNCHANGED remotePath
    /\ UNCHANGED <<fsVars, cfgVars, outVars, readers, runVars, used, scanVars, xferVars, ops>>

\* os.MkdirAll(sm.config.LocalFolder, 0755), then sm.sftpClient.Walk
PullMkRoot ==
    /\ pc = "pull_mkroot"
    /\ \/ /\ Succeeds
          /\ local' = MkdirAll(local, Root)
          /\ todo' = <<Root>>
          /\ Uses
          /\ pc' = "pull_walk"
          /\ UNCHANGED <<syncErr, exitErr>>
       \/ /\ Fails
          /\ SyncFails(Err("mkroot"))
          /\ UNCHANGED <<local, todo, used>>
    /\ UNCHANGED <<remote, lclock, rclock, cfgVars, outVars, readers, runVars, remotePath, plan, ignored,
                   mkdirs, unread, xferVars, ops>>

\* what the next walker.Step() pushes for directory n: its entries in the
\* order the server lists them, or nothing when the listing fails
PullDescend(n) ==
    /\ Uses
    /\ \/ /\ Succeeds
          /\ \E list \in Listings(n) :
                todo' = Present(remote, list) \o Tail(todo)
          /\ UNCHANGED unread
       \/ /\ Fails
          /\ todo' = Tail(todo)
          /\ unread' = Append(unread, n)

\* the body of the loop over walker.Step() for node n: an ignored directory
\* is passed over with continue and the walker still descends into it
PullVisit(n) ==
    IF n = Root
    THEN /\ IF remote[Root].exists
            THEN PullDescend(n)
            ELSE /\ Succeeds
                 /\ todo' = Tail(todo)
                 /\ unread' = Append(unread, Root)
                 /\ UNCHANGED used
         /\ UNCHANGED <<local, plan, ignored, mkdirs>>
    ELSE IF shouldIgnore(n, IsDir(n))
    THEN /\ ignored' = Append(ignored, n)
         /\ IF IsDir(n) THEN PullDescend(n)
            ELSE Succeeds /\ todo' = Tail(todo) /\ UNCHANGED <<unread, used>>
         /\ UNCHANGED <<local, plan, mkdirs>>
    ELSE IF ~IsDir(n)
    THEN /\ plan' = Append(plan, [rel |-> n, info |-> remote[n]])
         /\ todo' = Tail(todo)
         /\ Succeeds
         /\ UNCHANGED <<local, ignored, mkdirs, unread, used>>
    ELSE /\ \E mkOk \in BOOLEAN :
               /\ local' = IF mkOk THEN MkdirAll(local, n) ELSE local
               /\ mkdirs' = Append(mkdirs, [path |-> n, phase |-> 1,
                                            created |-> mkOk /\ ~local[n].exists])
               /\ IF mkOk THEN PullDescend(n)
                  ELSE /\ Fails
                       /\ \E list \in Listings(n) :
                             todo' = Present(remote, list) \o Tail(todo)
                       /\ Uses
                       /\ UNCHANGED unread
         /\ UNCHANGED <<plan, ignored>>

\* one iteration of the loop over walker.Step(): a node whose walker.Err()
\* is set (the root that cannot be read) is passed over with continue
PullWalkStep ==
    /\ pc = "pull_walk"
    /\ todo # <<>>
    /\ \/ PullVisit(Head(todo))
       \/ /\ Head(todo) = Root
          /\ Fails
          /\ todo' = Tail(todo)
          /\ unread' = Append(unread, Root)
          /\ UNCHANGED <<local, plan, ignored, mkdirs, used>>
    /\ UNCHANGED <<remote, lclock, rclock, cfgVars, outVars, readers, runVars, remotePath, xferVars, pc,
                   syncErr, exitErr, ops>>

\* walker.Step() returned false
PullWalkEnd ==
    /\ pc = "pull_walk"
    /\ todo = <<>>
    /\ IF Len(plan) = 0
       THEN syncErr' = Ok /\ exitErr' = Ok /\ pc' = "done"
       ELSE pc' = "pull_xfer" /\ UNCHANGED <<syncErr, exitErr>>
    /\ UNCHANGED <<fsVars, cfgVars, outVars, readers, runVars, pathVars, scanVars, xferVars, ops, faults>>

\* variant of Download: the local file is created and nothing is copied
DownloadCreatesOnly(n, out) ==
    IF out = "mkdir" THEN UNCHANGED local
    ELSE IF out = "fail" THEN local' = MkdirAll(local, Dir(n))
    ELSE local' = [MkdirAll(local, Dir(n)) EXCEPT ![n] = FileEnt(0, lclock)]

\* downloadFile: it fails in os.MkdirAll, or between that and the creation
\* of the local file, or while copying, or copies and fails to set the
\* mode, or succeeds; the local file is stamped with the local clock
Download(n, out) ==
    IF out = "mkdir" THEN UNCHANGED local
    ELSE IF out = "fail" THEN local' = MkdirAll(local, Dir(n))
    ELSE local' = [MkdirAll(local, Dir(n)) EXCEPT ![n] =
                     FileEnt(IF out = "copy" THEN 0 ELSE remote[n].content, lclock)]

\* one iteration of the second loop of PullFiles
PullXferStep ==
    /\ pc = "pull_xfer"
    /\ idx < Len(plan)
    /\ LET file == plan[idx + 1] IN
       \E statOk \in BOOLEAN, out \in {"ok", "mkdir", "fail", "copy", "chmod"} :
          LET cmp == Compare(file, IF statOk THEN local[file.rel] ELSE NoEnt)
              nfail == (IF statOk THEN 0 ELSE 1) +
                       (IF ~cmp.skip /\ out # "ok" THEN 1 ELSE 0)
          IN /\ faults + nfail <= MaxFaults
             /\ faults' = faults + nfail
             /\ cmps' = Append(cmps, cmp)
             /\ Uses
             /\ progress' = progress \o
                   Drawings(idx + 1, cmp.skip, Returned(out), "Downloading")
             /\ IF cmp.skip
                THEN /\ out = "ok"
                     /\ skippedCount' = skippedCount + 1
                     /\ idx' = idx + 1
                     /\ UNCHANGED <<local, xfers, syncedCount, mkdirs, pc,
                                    syncErr, exitErr>>
                ELSE /\ xfers' = Append(xfers, [rel |-> file.rel, ok |-> Returned(out),
                                                   out |-> out])
                     /\ Download(file.rel, out)
                     /\ mkdirs' = IF out # "mkdir" /\ ~local[Dir(file.rel)].exists
                                  THEN Append(mkdirs, [path |-> Dir(file.rel),
                                                       phase |-> 2, created |-> TRUE])
                                  ELSE mkdirs
                     /\ IF Returned(out) THEN XferDone ELSE XferFails(file)
    /\ UNCHANGED <<remote, lclock, rclock, cfgVars, logs, readers, runVars, remotePath, todo, plan,
                   ignored, unread, ops>>

\* variant of PullXferEnd: main goes on to the deployment after a pull
PullXferEndDeploys ==
    /\ pc = "pull_xfer"
    /\ idx = Len(plan)
    /\ syncErr' = Ok
    /\ progress' = Append(progress, Complete(LastMsg))
    /\ pc' = "deploy_home"
    /\ UNCHANGED <<fsVars, cfgVars, logs, readers, runVars, pathVars, scanVars, xferVars, exitErr, ops,
                   faults>>

\* end of the second loop: PullFiles returns nil and main returns
PullXferEnd ==
    /\ pc = "pull_xfer"
    /\ idx = Len(plan)
    /\ syncErr' = Ok
    /\ progress' = Append(progress, Complete(LastMsg))
    /\ exitErr' = Ok
    /\ pc' = "done"
    /\ UNCHANGED <<fsVars, cfgVars, logs, readers, runVars, pathVars, scanVars, xferVars, ops, faults>>

---------------------------------------------------------------------------
(* ExecuteDockerCommands *)

\* a remote command is issued and returns: ok tells whether it succeeded
Issue(op, ok) ==
    /\ ops' = Append(ops, [op |-> op, ok |-> ok])
    /\ IF ok THEN Succeeds ELSE Fails

\* executeRemoteCommandQuiet: the command is issued and its result is
\* handed back; when it failed and printed something, that is logged
Quiet(op, ok, output) ==
    /\ Issue(op, ok)
    /\ logs' = IF ~ok /\ output
               THEN Append(logs, [op |-> op, msg |-> "Error output"])
               ELSE logs

\* expansion of "~/" by getRemoteHomeDir
DeployHome ==
    /\ pc = "deploy_home"
    /\ IF tilde
       THEN \E ok \in BOOLEAN :
               /\ Issue("home", ok)
               /\ IF ok THEN pc' = "deploy_check" /\ UNCHANGED exitErr
                        ELSE Fatal(Err("deploy_home"))
       ELSE pc' = "deploy_check" /\ UNCHANGED <<ops, exitErr, faults>>
    /\ UNCHANGED <<fsVars, cfgVars, outVars, readers, runVars, pathVars, scanVars, xferVars, syncErr>>

\* the test for a Dockerfile: its outcome only decides a warning
DeployCheck ==
    /\ pc = "deploy_check"
    /\ \E ok \in BOOLEAN : Issue("check", ok)
    /\ pc' = "deploy_stop"
    /\ UNCHANGED <<fsVars, cfgVars, outVars, readers, runVars, pathVars, scanVars, xferVars, syncErr, exitErr>>

\* variant of DeployStop: the build follows at once, the image is not removed
DeployStopThenBuild ==
    /\ pc = "deploy_stop"
    /\ \E ok \in BOOLEAN, output \in BOOLEAN : Quiet("stop", ok, output)
    /\ pc' = "deploy_build"
    /\ UNCHANGED <<fsVars, cfgVars, progress, readers, runVars, pathVars, scanVars, xferVars, syncErr, exitErr>>

\* step 1: stop and remove the containers; the result is dropped
DeployStop ==
    /\ pc = "deploy_stop"
    /\ \E ok \in BOOLEAN, output \in BOOLEAN : Quiet("stop", ok, output)
    /\ pc' = "deploy_rmi"
    /\ UNCHANGED <<fsVars, cfgVars, progress, readers, runVars, pathVars, scanVars, xferVars, syncErr, exitErr>>

\* variant of DeployRmi: a failed image removal ends the call
DeployRmiFatal ==
    /\ pc = "deploy_rmi"
    /\ \E ok \in BOOLEAN, output \in BOOLEAN :
          /\ Quiet("rmi", ok, output)
          /\ IF ok THEN pc' = "deploy_build" /\ UNCHANGED exitErr
                   ELSE Fatal(Err("rmi"))
    /\ UNCHANGED <<fsVars, cfgVars, progress, readers, runVars, pathVars, scanVars, xferVars, syncErr>>

\* step 2: remove the image; the result is dropped
DeployRmi ==
    /\ pc = "deploy_rmi"
    /\ \E ok \in BOOLEAN, output \in BOOLEAN : Quiet("rmi", ok, output)
    /\ pc' = "deploy_build"
    /\ UNCHANGED <<fsVars, cfgVars, progress, readers, runVars, pathVars, scanVars, xferVars, syncErr, exitErr>>

\* step 3, first half: the session is opened, the command is started and
\* the two copying goroutines are launched; a failure before that ends the
\* call with the build error
DeployBuildStart ==
    /\ pc = "deploy_build"
    /\ \/ /\ Succeeds
          /\ readers' = [r \in Readers |-> "reading"]
          /\ pc' = "deploy_wait"
          /\ UNCHANGED <<ops, exitErr>>
       \/ /\ Issue("build", FALSE)
          /\ Fatal(Err("build"))
          /\ UNCHANGED readers
    /\ UNCHANGED <<fsVars, cfgVars, outVars, runVars, pathVars, scanVars, xferVars, syncErr>>

\* a copying goroutine reaches the end of its stream and ends; it can do
\* so only while the process lives
ReaderEnds(r) ==
    /\ pc \in {"deploy_wait", "deploy_run"}
    /\ readers[r] = "reading"
    /\ readers' = [readers EXCEPT ![r] = "ended"]
    /\ UNCHANGED <<fsVars, cfgVars, outVars, runVars, pathVars, scanVars, xferVars, pc,
                   syncErr, exitErr, ops, faults>>

\* variant of DeployBuild: the result of the build is dropped
DeployBuildIgnored ==
    /\ pc = "deploy_wait"
    /\ \E ok \in BOOLEAN : Issue("build", ok)
    /\ pc' = "deploy_run"
    /\ UNCHANGED <<fsVars, cfgVars, outVars, readers, runVars, pathVars, scanVars, xferVars, syncErr, exitErr>>

\* step 3, second half: session.Wait() returns, with nothing that waits
\* for the copying goroutines; a failure ends the call
DeployBuild ==
    /\ pc = "deploy_wait"
    /\ \E ok \in BOOLEAN :
          /\ Issue("build", ok)
          /\ IF ok THEN pc' = "deploy_run" /\ UNCHANGED exitErr
                   ELSE Fatal(Err("build"))
    /\ UNCHANGED <<fsVars, cfgVars, outVars, readers, runVars, pathVars, scanVars, xferVars, syncErr>>

\* variant of DeployRun: the result of the run command is dropped
DeployRunIgnored ==
    /\ pc = "deploy_run"
    /\ \E ok \in BOOLEAN :
          /\ Issue("run", ok)
          /\ Fatal(Ok)
    /\ UNCHANGED <<fsVars, cfgVars, outVars, readers, runVars, pathVars, scanVars, xferVars, syncErr>>

\* step 4: run the container; main returns after it
DeployRun ==
    /\ pc = "deploy_run"
    /\ \E ok \in BOOLEAN :
          /\ Issue("run", ok)
          /\ Fatal(IF ok THEN Ok ELSE Err("run"))
    /\ UNCHANGED <<fsVars, cfgVars, outVars, readers, runVars, pathVars, scanVars, xferVars, syncErr>>

---------------------------------------------------------------------------
(* Specifications *)

\* the steps of one invocation
Step ==
    \/ MainReadDir
    \/ MainConnect
    \/ Confirm
    \/ PushStat
    \/ PushHome
    \/ PushMkRoot
    \/ PushWalkStep
    \/ PushWalkEnd
    \/ PushXferStep
    \/ PushXferEnd
    \/ PullHome
    \/ PullMkRoot
    \/ PullWalkStep
    \/ PullWalkEnd
    \/ PullXferStep
    \/ PullXferEnd
    \/ DeployHome
    \/ DeployCheck
    \/ DeployStop
    \/ DeployRmi
    \/ DeployBuildStart
    \/ \E r \in Readers : ReaderEnds(r)
    \/ DeployBuild
    \/ DeployRun

\* one invocation of the program, from any configuration and trees
Next == Start \/ Step

Spec == Init /\ [][Next]_vars

\* one call of shouldIgnore with the rules as configured, and one with the
\* same rules written with a trailing "/"
ShouldIgnoreProbe ==
    /\ ~verdict.given
    /\ probe # NoProbe
    /\ verdict' = [given |-> TRUE,
                   plain |-> shouldIgnore(probe.rel, probe.isDir),
                   slash |-> IgnoredBy(WithSlash(patterns), probe.rel, probe.isDir)]
    /\ UNCHANGED <<patterns, tilde, local0, remote0, probe, fsVars, runVars,
                   readers, outVars, pathVars, scanVars, xferVars, pc, syncErr, exitErr, ops, faults>>

NextIgnore == ShouldIgnoreProbe

\* shouldIgnore on its own, over the probes
SpecIgnore == InitIgnore /\ [][NextIgnore]_vars

\* the rules the pattern list is drawn from: names, directory patterns and
\* wildcards, with and without the trailing "/"
Rules ==
    { <<"a">>, <<"d">>, <<"d", "/">>, <<"d", "*">>, <<"*", "b">>, <<"d", "*", "/">> }

RuleLists == { <<r>> : r \in Rules } \cup { <<r, s>> : r \in Rules, s \in Rules }

Reverse(seq) == [k \in 1..Len(seq) |-> seq[Len(seq) + 1 - k]]

\* a list of one or two ignore rules and a path to test
InitRules ==
    /\ patterns \in RuleLists
    /\ \E p \in ProbePaths, dir \in BOOLEAN : probe = [rel |-> p, isDir |-> dir]
    /\ verdict = NoVerdict
    /\ tilde = FALSE
    /\ local = EmptyTree
    /\ remote = EmptyTree
    /\ local0 = local
    /\ remote0 = remote
    /\ NotStarted

\* one call of shouldIgnore with the rules as configured; next to its result
\* are kept the result with the list reversed and the result of each
\* iteration of the loop taken alone
ShouldIgnoreRules ==
    /\ ~verdict.given
    /\ probe # NoProbe
    /\ verdict' = [given |-> TRUE, calls |-> 1,
                   plain |-> shouldIgnore(probe.rel, probe.isDir),
                   second |-> FALSE,
                   reversed |-> IgnoredBy(Reverse(patterns), probe.rel, probe.isDir),
                   each |-> [k \in 1..Len(patterns) |->
                               PatternIgnores(patterns[k], probe.rel, probe.isDir)]]
    /\ UNCHANGED <<patterns, tilde, local0, remote0, probe, fsVars, runVars,
                   readers, outVars, pathVars, scanVars, xferVars, pc, syncErr, exitErr, ops, faults>>

\* a second call of shouldIgnore with the same arguments and configuration
ShouldIgnoreAgain ==
    /\ verdict.given
    /\ verdict.calls = 1
    /\ verdict' = [verdict EXCEPT !.calls = 2,
                                  !.second = shouldIgnore(probe.rel, probe.isDir)]
    /\ UNCHANGED <<patterns, tilde, local0, remote0, probe, fsVars, runVars,
                   readers, outVars, pathVars, scanVars, xferVars, pc, syncErr, exitErr, ops, faults>>

NextRules == ShouldIgnoreRules \/ ShouldIgnoreAgain

\* shouldIgnore on its own, over lists of rules
SpecRules == InitRules /\ [][NextRules]_vars

\* one invocation in which every call returns: a step that can be taken is
\* taken in the end
SpecLive == InitTwice /\ [][Next]_vars /\ WF_vars(Next)

\* up to MaxRuns invocations in a row
NextTwice == Start \/ StartAgain \/ Step

SpecTwice == InitTwice /\ [][NextTwice]_vars

---------------------------------------------------------------------------
(* Properties *)

Under(n, d) == HasPrefix(n, d \o <<"/">>)

Count(seq, x) == Cardinality({k \in 1..Len(seq) : seq[k] = x})

PlanRels == {plan[k].rel : k \in 1..Len(plan)}

\* source and destination tree of the current invocation
Src == IF mode = "push" THEN local ELSE remote
Dst == IF mode = "push" THEN remote ELSE local

DeployPcs == {"deploy_home", "deploy_check", "deploy_stop", "deploy_rmi",
              "deploy_build", "deploy_wait", "deploy_run"}

Pipeline == <<"stop", "rmi", "build", "run">>

PipelineOps == SelectSeq(ops, LAMBDA r : r.op \in {"stop", "rmi", "build", "run"})

\* C1: the pipeline steps are only ever issued in the order stop, rmi,
\* build, run: build comes after the removal of the image has returned and
\* run comes after a build that succeeded.
C1_PipelineOrder ==
    /\ Len(PipelineOps) <= Len(Pipeline)
    /\ \A i \in 1..Len(PipelineOps) : PipelineOps[i].op = Pipeline[i]
    /\ \A i \in 1..Len(ops) :
          ops[i].op = "run" => \E j \in 1..(i - 1) : ops[j].op = "build" /\ ops[j].ok

C1_Witness ==
    /\ pc = "done"
    /\ Len(PipelineOps) = Len(Pipeline)
    /\ PipelineOps[Len(Pipeline)].op = "run"

\* C2: a failed build is the last command of the deployment: the call
\* returns the build error, run is not issued and nothing is issued that
\* would undo the stop and image removal done before.
C2_BuildFailureEndsDeployment ==
    \A i \in 1..Len(ops) :
       (ops[i].op = "build" /\ ~ops[i].ok) =>
          /\ i = Len(ops)
          /\ pc = "done"
          /\ exitErr = Err("build")

C2_Witness ==
    /\ Len(ops) >= 3
    /\ ops[Len(ops)] = [op |-> "build", ok |-> FALSE]
    /\ ops[Len(ops) - 1] = [op |-> "rmi", ok |-> TRUE]
    /\ ops[Len(ops) - 2] = [op |-> "stop", ok |-> TRUE]

\* C3: in push mode the deployment is entered only after SyncFiles returned
\* nil; after a failed sync no deployment command is issued and the
\* invocation is over.
C3_DeployOnlyAfterPush ==
    mode = "push" =>
       /\ (pc \in DeployPcs \/ ops # <<>>) => syncErr = Ok
       /\ syncErr.kind \notin {"none", "ok"} => (ops = <<>> /\ pc = "done")

C3_Witness ==
    /\ mode = "push"
    /\ pc = "done"
    /\ syncErr.kind = "transfer"
    /\ syncedCount = 1
    /\ ops = <<>>

\* C4: in pull mode the deployment is never entered and no deployment
\* command is issued, whatever the outcome of the pull.
C4_PullNeverDeploys ==
    mode = "pull" => (ops = <<>> /\ pc \notin DeployPcs)

C4_Witness ==
    /\ mode = "pull"
    /\ pc = "done"
    /\ exitErr = Ok
    /\ syncedCount > 0

\* C5: a push that follows a successful push, with no failure of the
\* environment in it, transfers nothing and skips every item it checks.
C5_SecondPushTransfersNothing ==
    (runs >= 2 /\ mode = "push" /\ prev = [mode |-> "push", sync |-> "ok"]
       /\ faults = 0) =>
       /\ xfers = <<>>
       /\ syncedCount = 0
       /\ syncErr = Ok => skippedCount = Len(plan)

\* the local tree is as it was before the first invocation, up to the
\* paths the patterns ignore: same paths, same contents
LocalAsBefore ==
    \A n \in Nodes :
       ~shouldIgnore(n, IsDir(n)) =>
          /\ local[n].exists = local0[n].exists
          /\ local[n].content = local0[n].content

PushThenPullDone ==
    /\ runs = 2
    /\ prev = [mode |-> "push", sync |-> "ok"]
    /\ mode = "pull"
    /\ pc = "done"
    /\ syncErr = Ok

\* C6 as stated: after a successful push and a successful pull the local
\* tree has the paths and contents it had before, up to ignored paths.
C6_RoundTrip == PushThenPullDone => LocalAsBefore

\* every entry of the remote tree before the push was also a local entry,
\* files with the same contents
RemoteWithinLocal ==
    \A n \in Nodes :
       remote0[n].exists =>
          (local0[n].exists /\ local0[n].content = remote0[n].content)

\* C6 as amended: the round trip reproduces the local tree when the remote
\* tree held nothing before the push but entries that were also local
\* entries, files with the same contents.
C6_RoundTripFromSubset ==
    (PushThenPullDone /\ RemoteWithinLocal) => LocalAsBefore

C6_Witness ==
    /\ PushThenPullDone
    /\ RemoteWithinLocal
    /\ syncedCount > 0
    /\ local0[PA].exists

UpToDate(c, strict) ==
    /\ c.dst.exists
    /\ Size(c.dst.content) = Size(c.src.content)
    /\ IF strict THEN c.dst.mtime > c.src.mtime - Second
                 ELSE c.dst.mtime >= c.src.mtime - Second

\* C7 as stated: an item is found up to date exactly when the destination
\* exists, has the size of the source and is no older than the source time
\* minus one second.
C7_DetectorInclusive ==
    \A k \in 1..Len(cmps) : cmps[k].skip <=> UpToDate(cmps[k], FALSE)

\* C7 as amended: an item is found up to date exactly when the destination
\* exists, has the size of the source and is strictly younger than the
\* source time minus one second, in push and in pull.
C7_DetectorStrict ==
    \A k \in 1..Len(cmps) : cmps[k].skip <=> UpToDate(cmps[k], TRUE)

C7_Witness ==
    \E k \in 1..Len(cmps) :
       /\ cmps[k].dst.exists
       /\ Size(cmps[k].dst.content) = Size(cmps[k].src.content)
       /\ cmps[k].dst.mtime = cmps[k].src.mtime - Second
       /\ ~cmps[k].skip

DirRuleMatches(d) ==
    \E k \in 1..Len(patterns) :
       IsDirectoryPattern(patterns[k]) /\ PatternIgnores(patterns[k], d, TRUE)

\* C8: a directory matched by a directory-name rule is counted once as
\* ignored, and nothing below it is planned or counted.
C8_DirRuleCountsOnce ==
    \A d \in DirNodes \ {Root} :
       (DirRuleMatches(d) /\ Count(ignored, d) > 0) =>
          /\ Count(ignored, d) = 1
          /\ \A n \in Nodes :
                Under(n, d) => (n \notin PlanRels /\ Count(ignored, n) = 0)

\* C9: nothing below an ignored directory is planned or transferred, and
\* neither the directory nor anything below it is created at the destination.
C9_IgnoredDirPruned ==
    \A d \in DirNodes \ {Root} :
       Count(ignored, d) > 0 =>
          /\ \A n \in Nodes :
                Under(n, d) =>
                   /\ n \notin PlanRels
                   /\ \A k \in 1..Len(xfers) : xfers[k].rel # n
          /\ \A k \in 1..Len(mkdirs) :
                mkdirs[k].path # d /\ ~Under(mkdirs[k].path, d)

\* C10: a failed transfer is the last thing phase 2 does: the sync call and
\* the invocation end with the error naming the item, no later item is
\* compared, the item is transferred once, and the items transferred
\* before it are at the destination with the contents of the source.
C10_AbortOnFirstFailure ==
    \A k \in 1..Len(xfers) :
       ~xfers[k].ok =>
          /\ k = Len(xfers)
          /\ pc = "done"
          /\ syncErr = ErrAt("transfer", xfers[k].rel)
          /\ exitErr = syncErr
          /\ plan[idx + 1].rel = xfers[k].rel
          /\ Len(cmps) = idx + 1
          /\ \A j \in 1..(k - 1) :
                /\ xfers[j].ok
                /\ xfers[j].rel # xfers[k].rel
                /\ Dst[xfers[j].rel].exists
                /\ Dst[xfers[j].rel].content = Src[xfers[j].rel].content

C10_Witness ==
    /\ Len(plan) = 2
    /\ Len(xfers) = 2
    /\ xfers[1].ok
    /\ ~xfers[2].ok
    /\ pc = "done"

\* C11: a source node below the root whose stat or listing failed during
\* the enumeration ends the sync call with the scan error naming it, and
\* nothing is compared or transferred in that invocation.
C11_ScanFailureAborts ==
    \A k \in 1..Len(unread) :
       unread[k] # Root =>
          /\ pc = "done"
          /\ syncErr = ErrAt("scan", unread[k])
          /\ cmps = <<>>
          /\ xfers = <<>>

\* C12: when the root of the source tree cannot be read (the local folder
\* in push, the remote folder in pull) the sync call returns an error about
\* it and never returns success.
C12_InaccessibleRootFails ==
    ((\E k \in 1..Len(unread) : unread[k] = Root) /\ syncErr # Running) =>
       syncErr.kind \in {"stat", "scan"}

\* the sync call has done nothing yet at either endpoint
NothingDoneYet ==
    /\ used = {}
    /\ todo = <<>> /\ plan = <<>>
    /\ mkdirs = <<>> /\ cmps = <<>> /\ xfers = <<>>
    /\ local = local0 /\ remote = remote0

DeployReturned == mode = "push" /\ syncErr = Ok /\ pc = "done"

\* a remote command of one of the kinds in S was issued and failed
FailedOp(S) == \E i \in 1..Len(ops) : ops[i].op \in S /\ ~ops[i].ok

\* C14 as stated: the deployment call returns an error exactly when the
\* build or the run command failed.
C14_ErrorIffFatalStep ==
    DeployReturned => (exitErr # Ok <=> FailedOp({"build", "run"}))

\* C14 as amended: the deployment call returns an error exactly when the
\* home query, the build or the run command failed, the error is the one
\* of that command and the command is the last one issued; a failed check,
\* stop or image removal leaves the result alone.
C14_ErrorIffHomeOrFatalStep ==
    DeployReturned =>
       /\ exitErr = IF FailedOp({"home"}) THEN Err("deploy_home")
                    ELSE IF FailedOp({"build"}) THEN Err("build")
                    ELSE IF FailedOp({"run"}) THEN Err("run")
                    ELSE Ok
       /\ \A i \in 1..Len(ops) :
             (ops[i].op \in {"home", "build", "run"} /\ ~ops[i].ok) => i = Len(ops)

C14_Witness ==
    /\ DeployReturned
    /\ exitErr = Err("run")
    /\ ops[Len(ops)] = [op |-> "run", ok |-> FALSE]

PullPcs == {"pull_home", "pull_mkroot", "pull_walk", "pull_xfer"}

\* C15: in pull mode PullFiles runs, and the local tree is written to,
\* only after the user has answered yes to the question of main; after the
\* answer no the invocation is over with the local tree as it was.
C15_ConfirmBeforeLocalWrite ==
    mode = "pull" =>
       /\ (pc \in PullPcs \/ syncErr # Running \/ local # local0
             \/ mkdirs # <<>> \/ xfers # <<>>) => reply = "yes"
       /\ reply = "no" => (pc = "done" /\ local = local0)

C15_Witness ==
    /\ mode = "pull"
    /\ reply = "no"
    /\ pc = "done"
    /\ remote[PA].exists
    /\ ~local[PA].exists

\* C16: a rule that is a name without wildcard gives the same decision
\* written with and without a trailing "/", for every path and both kinds
\* of node.
C16_TrailingSlashSameDecision ==
    verdict.given => (verdict.plain <=> verdict.slash)

C16_Witness ==
    /\ verdict.given
    /\ verdict.plain
    /\ verdict.slash
    /\ patterns = << <<"d">> >>
    /\ probe = [rel |-> <<"d", "/", "b">>, isDir |-> FALSE]

Skipped     == {k \in 1..Len(cmps) : cmps[k].skip}
Transferred == {k \in 1..Len(cmps) : ~cmps[k].skip}

\* C17: in push and in pull the k-th plan item is skipped exactly when its
\* destination exists with the size of the source and a modification time
\* strictly after source time minus one second; every other item, and no
\* skipped item, is handed to the transfer.
C17_SkipExactlyWhenUpToDate ==
    /\ Len(cmps) <= Len(plan)
    /\ \A k \in 1..Len(cmps) :
          /\ cmps[k].rel = plan[k].rel
          /\ cmps[k].src = plan[k].info
          /\ cmps[k].skip <=>
                (/\ cmps[k].dst.exists
                 /\ Size(cmps[k].dst.content) = Size(plan[k].info.content)
                 /\ cmps[k].dst.mtime > plan[k].info.mtime - Second)
          /\ cmps[k].skip <=> (\A j \in 1..Len(xfers) : xfers[j].rel # cmps[k].rel)
    /\ skippedCount = Cardinality(Skipped)
    /\ Len(xfers) = Cardinality(Transferred)

C17_Witness ==
    /\ pc = "done"
    /\ Len(cmps) = 2
    /\ \E k \in Skipped : cmps[k].dst.mtime = cmps[k].src.mtime
    /\ \E k \in Transferred :
          /\ cmps[k].dst.exists
          /\ Size(cmps[k].dst.content) # Size(cmps[k].src.content)
          /\ cmps[k].dst.mtime > cmps[k].src.mtime

\* a source file that is not ignored and has no ignored directory above it
Eligible(n) ==
    /\ n \in FileNodes
    /\ Src[n].exists
    /\ ~shouldIgnore(n, FALSE)
    /\ \A d \in DirNodes \ {Root} : Under(n, d) => ~shouldIgnore(d, TRUE)

\* phase 1 has ended without a read failure
ScanComplete ==
    /\ pc \in {"push_xfer", "pull_xfer"} \/ syncErr = Ok
    /\ unread = <<>>

\* C18: the plan of a completed phase 1, in push and in pull, holds each
\* source file that is not ignored and has no ignored ancestor directory
\* exactly once, and nothing else.
C18_PlanExact ==
    ScanComplete =>
       /\ PlanRels = {n \in Nodes : Eligible(n)}
       /\ Len(plan) = Cardinality(PlanRels)

\* executeRemoteCommandWithProgress has returned
BuildReturned == \E i \in 1..Len(ops) : ops[i].op = "build"

\* C19: once the streamed build command has been reported complete,
\* neither of the two copying goroutines is still reading.
C19_ReturnAfterReadersEnd ==
    BuildReturned => \A r \in Readers : readers[r] # "reading"

\* where main is while the command op is the last one that has returned:
\* about to issue the next step or, after rmi, inside the build
AfterSoftStep(op) ==
    IF op = "check" THEN {"deploy_stop"}
    ELSE IF op = "stop" THEN {"deploy_rmi"}
    ELSE {"deploy_build", "deploy_wait"}

\* C20: a failed Dockerfile check, stop or image removal is never the
\* result of the deployment: the pipeline goes on to its next step, and
\* when the invocation is over the build has been invoked after it.
C20_SoftFailuresGoOn ==
    \A i \in 1..Len(ops) :
       (ops[i].op \in {"check", "stop", "rmi"} /\ ~ops[i].ok) =>
          /\ exitErr \in {Running, Ok, Err("build"), Err("run")}
          /\ i = Len(ops) => pc \in AfterSoftStep(ops[i].op)
          /\ pc = "done" => \E j \in (i + 1)..Len(ops) : ops[j].op = "build"

C20_Witness ==
    /\ pc = "done"
    /\ exitErr = Ok
    /\ FailedOp({"rmi"})
    /\ ops[Len(ops)] = [op |-> "run", ok |-> TRUE]

\* C21: the stop and the image removal are silent whatever their outcome:
\* nothing is logged about either command.
C21_QuietStepsSilent ==
    \A k \in 1..Len(logs) : logs[k].op \notin {"stop", "rmi"}

\* C24: every directory creation at the destination belongs to phase 1
\* and comes before the first transfer; phase 2 creates no directory.
C24_DirsCreatedInPhaseOne ==
    /\ \A k \in 1..Len(mkdirs) : mkdirs[k].phase = 1
    /\ pc \in {"push_walk", "pull_walk"} => xfers = <<>>

\* the drawings made by Update for position k
UpdatesAt(k) ==
    {j \in 1..Len(progress) : progress[j].by = "Update" /\ progress[j].current = k}

\* C25: each plan item phase 2 has dealt with, transferred or skipped, was
\* given exactly one progress update, with its 1-based position in the
\* plan as current and the plan length as total.
C25_OneUpdatePerItem ==
    /\ \A k \in 1..Len(cmps) : Cardinality(UpdatesAt(k)) = 1
    /\ \A j \in 1..Len(progress) :
          /\ progress[j].total = Len(plan)
          /\ progress[j].by = "Update" => progress[j].current \in 1..Len(cmps)

\* C26: a transfer whose contents were copied and whose Chmod failed is a
\* successful transfer, in push and in pull: it is counted, the file is at
\* the destination with the contents of the source, and the sync call does
\* not end with an error about it but goes on with the next item.
C26_ModeFailureSwallowed ==
    \A k \in 1..Len(xfers) :
       xfers[k].out = "chmod" =>
          /\ xfers[k].ok
          /\ syncedCount >= Cardinality({j \in 1..k : xfers[j].ok})
          /\ Dst[xfers[k].rel].exists
          /\ Dst[xfers[k].rel].content = Src[xfers[k].rel].content
          /\ syncErr # ErrAt("transfer", xfers[k].rel)
          /\ pc \in {"push_xfer", "pull_xfer"} \/ syncErr = Ok
                \/ (k < Len(xfers) /\ syncErr = ErrAt("transfer", xfers[Len(xfers)].rel))

C26_Witness ==
    /\ Len(xfers) = 2
    /\ xfers[1].out = "chmod"
    /\ xfers[2].out = "ok"
    /\ syncedCount = 2
    /\ syncErr = Ok
    /\ pc = "done"

\* C22: a rule whose pattern contains a wildcard is matched against the base
\* name only: when such a rule, alone in the list, ignores a path, the base
\* name of the path matches the pattern; a matching directory component
\* above the base name never makes the path ignored.
C22_WildcardBaseNameOnly ==
    (verdict.given /\ Len(patterns) = 1 /\ Contains(patterns[1], "*")) =>
        (verdict.plain => GlobMatch(CleanPattern(patterns[1]), Base(probe.rel)))

\* C23: the decision depends on the path, the directory flag and the rules
\* only: a second call gives the same result, the result is the OR of the
\* results of the rules taken one by one, and it is the same with the
\* pattern list reversed.
C23_OrderIndependentOr ==
    verdict.given =>
        /\ verdict.plain = (\E k \in 1..Len(patterns) : verdict.each[k])
        /\ verdict.plain = verdict.reversed
        /\ verdict.calls = 2 => verdict.second = verdict.plain

C23_Witness ==
    /\ verdict.given
    /\ verdict.calls = 2
    /\ Len(patterns) = 2
    /\ ~verdict.each[1]
    /\ verdict.each[2]
    /\ verdict.plain

SkippedAt == {k \in 1..Len(cmps) : cmps[k].skip}

TransferredAt == {k \in 1..Len(cmps) : \E j \in 1..Len(xfers) :
                     xfers[j].ok /\ xfers[j].rel = cmps[k].rel}

\* C28: in the second pass of push and pull, transferred + skipped is the
\* number of items gone through so far and each of them is counted as
\* skipped or as transferred, never both; a run that ends in success has
\* transferred + skipped = checked, one that ends in a transfer error has
\* transferred + skipped < checked.
C28_CountsPartitionProcessed ==
    /\ syncedCount + skippedCount = idx
    /\ skippedCount = Cardinality(SkippedAt)
    /\ syncedCount = Cardinality(TransferredAt)
    /\ SkippedAt \cap TransferredAt = {}
    /\ SkippedAt \cup TransferredAt = 1..idx
    /\ syncErr = Ok => syncedCount + skippedCount = Len(plan)
    /\ syncErr.kind = "transfer" => syncedCount + skippedCount < Len(plan)

C28_Witness ==
    /\ Len(plan) = 2
    /\ skippedCount = 1
    /\ syncedCount = 1
    /\ syncErr = Ok

\* source and destination tree as they were when the invocation began
Src0 == IF mode = "push" THEN local0 ELSE remote0
Dst0 == IF mode = "push" THEN remote0 ELSE local0

SkippedRels == {cmps[k].rel : k \in SkippedAt}

SyncPcs == {"push_stat", "push_home", "push_mkroot", "push_walk", "push_xfer",
            "pull_home", "pull_mkroot", "pull_walk", "pull_xfer"}

\* the nodes the first pass has dealt with, in the three ways it can
InPhaseOne(m) == m.phase = 1

Visited ==
    LET made == SelectSeq(mkdirs, InPhaseOne)
    IN ignored \o [k \in 1..Len(plan) |-> plan[k].rel]
               \o [k \in 1..Len(made) |-> made[k].path]

NoRepeats(seq) == \A j, k \in 1..Len(seq) : seq[j] = seq[k] => j = k

VisitsAndItemsOnce ==
    /\ NoRepeats(Visited)
    /\ pc \in {"push_walk", "pull_walk"} => NoRepeats(Visited \o todo)
    /\ Len(cmps) <= Len(plan)
    /\ idx <= Len(cmps)
    /\ Len(cmps) <= idx + 1
    /\ \A k \in 1..Len(cmps) : cmps[k].rel = plan[k].rel
    /\ syncErr.kind \in {"none", "ok", "stat", "home", "mkroot", "scan", "transfer"}

\* C27: when every call returns, a push or pull run over a finite tree
\* ends, in success or in an error; the first pass deals with each node at
\* most once and the second pass goes through the plan in the order of the
\* enumeration, each item at most once.
C27_RunTerminates ==
    /\ [] VisitsAndItemsOnce
    /\ (pc \in SyncPcs) ~> (syncErr # Running /\ pc \notin SyncPcs)

C27_Witness ==
    /\ mode = "pull"
    /\ syncErr = Ok
    /\ Len(plan) = 2
    /\ Len(cmps) = 2
    /\ idx = 2
    /\ pc = "done"

====
